---------------------------- MODULE Spec2Model ----------------------------
(* A model of src/ai_engine/pattern_recognizer.py (class PatternRecognizer). *)
(* Each method is modelled as its own specification over the shared          *)
(* variables below:                                                          *)
(*   SpecAnalyze  analyze             (the ast.walk loop, one node per step) *)
(*   SpecEmbed    __init__, _initialize_embedding_model, _get_embeddings     *)
(*   SpecCluster  _cluster_patterns   (DBSCAN(eps=0.3, min_samples=2))       *)
(*   SpecGroups   _analyze_clusters   (both loops, one iteration per step)   *)
(*   SpecLabel    _identify_pattern_type                                     *)
EXTENDS Integers, Sequences, FiniteSets, TLC

VARIABLES
    pc,               \* position of the running call
    ast_trees,        \* analyze: the parsed trees, as one forest of nodes
    files,            \* analyze: roots of ast_trees.items() not yet iterated
    file_path,        \* analyze: key of the file being walked
    todo,             \* analyze: the deque of ast.walk
    class_scope,      \* analyze: local class_scope (None or a ClassDef node)
    patterns,         \* analyze / _analyze_clusters: local list patterns
    origin,           \* history: the node each record of patterns was built from
    embedding_model,  \* self.embedding_model
    tokenizer,        \* self.tokenizer
    loads,            \* history: number of from_pretrained calls so far
    code_blocks,      \* argument code_blocks
    embeddings,       \* _get_embeddings: local list / _cluster_patterns: argument
    clusters,         \* argument clusters of _analyze_clusters
    pattern_groups,   \* _analyze_clusters: local dict, in insertion order
    idx,              \* loop position (enumerate index / items index)
    code_group,       \* argument of _identify_pattern_type
    result,           \* value returned by the call
    raised            \* exception leaving the call, or None

vars == <<pc, ast_trees, files, file_path, todo, class_scope, patterns, origin,
          embedding_model, tokenizer, loads, code_blocks, embeddings, clusters,
          pattern_groups, idx, code_group, result, raised>>

None == 0

\* the value of `raised` while no exception has left the call
NoError == [type |-> "", message |-> <<>>, context |-> <<>>]

(***************************************************************************)
(* Bounds                                                                  *)
(***************************************************************************)
MaxNodes == 4       \* nodes in the forest handed to analyze (all files)

(***************************************************************************)
(* analyze (lines 69-115)                                                  *)
(***************************************************************************)

\* An ast node: the fields analyze reads.  parent = 0 marks the root of a
\* file's tree.  decorator_list is kept as its truth value, the only thing the
\* code tests.  "Other" stands for every node kind that is neither ClassDef
\* nor FunctionDef (statements such as If, expressions, arguments).
ModuleNode == [parent |-> 0, kind |-> "Module", name |-> "", decorator_list |-> FALSE]

NodeTemplates ==
    << [kind |-> "ClassDef",    name |-> "Foo", decorator_list |-> FALSE],
       [kind |-> "ClassDef",    name |-> "Qux", decorator_list |-> FALSE],
       [kind |-> "FunctionDef", name |-> "bar", decorator_list |-> FALSE],
       [kind |-> "FunctionDef", name |-> "bar", decorator_list |-> TRUE],
       [kind |-> "FunctionDef", name |-> "baz", decorator_list |-> TRUE],
       [kind |-> "Other",       name |-> "",    decorator_list |-> FALSE] >>

\* Node i is either the root of a further file (choice 0) or a child of an
\* earlier node p built from a template t (choice (p-1) * Len(NodeTemplates) + t).
NodeChoices(i) == 1 + (i - 1) * Len(NodeTemplates)

NodeChoice(c) ==
    IF c = 0 THEN ModuleNode
    ELSE LET p == ((c - 1) \div Len(NodeTemplates)) + 1
             t == NodeTemplates[((c - 1) % Len(NodeTemplates)) + 1]
         IN  [parent |-> p, kind |-> t.kind, name |-> t.name,
              decorator_list |-> t.decorator_list]

\* The forests of n nodes are numbered 0..ForestsOfSize(n)-1; node 1 is the
\* root of the first file, and the number's digits pick the later nodes.
RECURSIVE ForestsOfSize(_)
ForestsOfSize(n) == IF n = 1 THEN 1 ELSE ForestsOfSize(n - 1) * NodeChoices(n)

RECURSIVE Forest(_, _)
Forest(n, code) ==
    IF n = 1 THEN <<ModuleNode>>
    ELSE Append(Forest(n - 1, code \div NodeChoices(n)),
                NodeChoice(code % NodeChoices(n)))

Ids(forest) == [i \in 1..Len(forest) |-> i]

\* ast.iter_child_nodes(node): the children in field order.
Children(forest, n) ==
    LET IsChild(i) == forest[i].parent = n IN SelectSeq(Ids(forest), IsChild)

\* ast_trees.items(): the files in insertion order, each keyed by its root.
Roots(forest) == Children(forest, 0)

\* node.body of a ClassDef.  Every FunctionDef child of a ClassDef is a body
\* statement (bases, keywords and decorators are expressions).
Body(forest, n) == Children(forest, n)

\* lines 78-85
ClassRecord(forest, n, path) ==
    [type |-> "class_definition", name |-> forest[n].name, file |-> path,
     pattern_type |-> "class", data |-> [name |-> forest[n].name],
     frequency |-> 1]

\* (variant: the method is attributed to itself instead of the enclosing class)
MethodRecordOwnName(forest, item, n, path) ==
    [type |-> "method_definition", name |-> forest[item].name, file |-> path,
     pattern_type |-> "method",
     data |-> [name |-> forest[item].name, class |-> forest[item].name],
     frequency |-> 1]

\* lines 89-99
MethodRecord(forest, item, n, path) ==
    [type |-> "method_definition", name |-> forest[item].name, file |-> path,
     pattern_type |-> "method",
     data |-> [name |-> forest[item].name, class |-> forest[n].name],
     frequency |-> 1]

\* (variant: the decorator list is not looked at)
FunctionRecordPlain(forest, n, path) ==
    [type |-> "function_definition", name |-> forest[n].name, file |-> path,
     pattern_type |-> "function", data |-> [name |-> forest[n].name],
     frequency |-> 1]

\* lines 101-111
FunctionRecord(forest, n, path) ==
    [type |-> IF forest[n].decorator_list THEN "decorator" ELSE "function_definition",
     name |-> forest[n].name, file |-> path,
     pattern_type |-> IF forest[n].decorator_list THEN "decorator" ELSE "function",
     data |-> [name |-> forest[n].name],
     frequency |-> 1]

\* lines 87-88: the items of node.body that are FunctionDef nodes.
MethodItems(forest, n) ==
    LET IsFn(i) == forest[i].kind = "FunctionDef" IN SelectSeq(Body(forest, n), IsFn)

\* line 77: class_scope after the ClassDef branch was (or was not) taken.
ScopeInBranch(forest, n, scope) ==
    IF forest[n].kind = "ClassDef" THEN n ELSE scope

\* line 100: the guard of the elif branch (an ast node is truthy, None is not).
FunctionBranch(forest, n, scope) ==
    forest[n].kind # "ClassDef" /\ forest[n].kind = "FunctionDef" /\ scope = None

\* (variant: the scope stays set after a class node)
ScopeKept(forest, n, scope) == scope

\* lines 113-114
ScopeAfterNode(forest, n, scope) ==
    IF forest[n].kind = "ClassDef" THEN None ELSE scope

\* lines 76-112: the records one node appends, with the node each comes from.
Emitted(forest, n, scope, path) ==
    IF forest[n].kind = "ClassDef"
    THEN [recs |-> <<ClassRecord(forest, n, path)>> \o
                   [k \in 1..Len(MethodItems(forest, n)) |->
                       MethodRecord(forest, MethodItems(forest, n)[k], n, path)],
          from |-> <<n>> \o MethodItems(forest, n)]
    ELSE IF FunctionBranch(forest, n, scope)
    THEN [recs |-> <<FunctionRecord(forest, n, path)>>, from |-> <<n>>]
    ELSE [recs |-> <<>>, from |-> <<>>]

\* analyze touches none of the object's fields or the other methods' locals
IdleRest ==
    /\ embedding_model = None /\ tokenizer = None /\ loads = 0
    /\ code_blocks = <<>> /\ embeddings = <<>> /\ clusters = <<>>
    /\ pattern_groups = <<>> /\ idx = 0 /\ code_group = <<>>
    /\ result = None /\ raised = NoError

\* the locals of analyze, while another method runs
IdleAnalyze ==
    /\ ast_trees = <<>> /\ files = <<>> /\ file_path = None /\ todo = <<>>
    /\ class_scope = None /\ origin = <<>>

\* line 71
InitAnalyze ==
    /\ pc = "analyze"
    /\ \E n \in 1..MaxNodes : \E code \in 0..(ForestsOfSize(n) - 1) :
         ast_trees = Forest(n, code)
    /\ files = Roots(ast_trees)
    /\ file_path = None
    /\ todo = <<>>
    /\ class_scope = None
    /\ patterns = <<>>
    /\ origin = <<>>
    /\ IdleRest

\* lines 72-75: the next (file_path, tree_info) of the outer loop; ast.walk
\* starts with the deque holding the tree's root.
AnalyzeNextFile ==
    /\ pc = "analyze"
    /\ todo = <<>>
    /\ files # <<>>
    /\ file_path' = Head(files)
    /\ files' = Tail(files)
    /\ class_scope' = None
    /\ todo' = <<Head(files)>>
    /\ UNCHANGED <<pc, ast_trees, patterns, origin, embedding_model, tokenizer,
                   loads, code_blocks, embeddings, clusters, pattern_groups,
                   idx, code_group, result, raised>>

\* lines 75-114: one iteration of the walk.  ast.walk pops the leftmost node,
\* appends its children to the deque and yields it.
AnalyzeVisit ==
    /\ pc = "analyze"
    /\ todo # <<>>
    /\ LET node == Head(todo)
           em   == Emitted(ast_trees, node, class_scope, file_path)
       IN  /\ todo' = Tail(todo) \o Children(ast_trees, node)
           /\ patterns' = patterns \o em.recs
           /\ origin' = origin \o em.from
           /\ class_scope' =
                ScopeAfterNode(ast_trees, node,
                               ScopeInBranch(ast_trees, node, class_scope))
    /\ UNCHANGED <<pc, ast_trees, files, file_path, embedding_model, tokenizer,
                   loads, code_blocks, embeddings, clusters, pattern_groups,
                   idx, code_group, result, raised>>

\* line 115
AnalyzeReturn ==
    /\ pc = "analyze"
    /\ todo = <<>>
    /\ files = <<>>
    /\ pc' = "done"
    /\ result' = patterns
    /\ UNCHANGED <<ast_trees, files, file_path, todo, class_scope, patterns,
                   origin, embedding_model, tokenizer, loads, code_blocks,
                   embeddings, clusters, pattern_groups, idx, code_group, raised>>

NextAnalyze == AnalyzeNextFile \/ AnalyzeVisit \/ AnalyzeReturn

SpecAnalyze == InitAnalyze /\ [][NextAnalyze]_vars

(***************************************************************************)
(* Properties of analyze                                                   *)
(***************************************************************************)
Nodes == 1..Len(ast_trees)
ClassNodes == { n \in Nodes : ast_trees[n].kind = "ClassDef" }
FunctionNodes == { n \in Nodes : ast_trees[n].kind = "FunctionDef" }
\* functions that sit directly in a class body
MethodNodes == { n \in FunctionNodes : ast_trees[ast_trees[n].parent].kind = "ClassDef" }
ModuleLevelFunctions ==
    { n \in FunctionNodes : ast_trees[ast_trees[n].parent].kind = "Module" }

FileRoots == { n \in Nodes : ast_trees[n].parent = 0 }

RECURSIVE FileOf(_)
FileOf(n) == IF ast_trees[n].parent = 0 THEN n ELSE FileOf(ast_trees[n].parent)

Positions == 1..Len(patterns)
RecordsOfType(t) == { k \in Positions : patterns[k].type = t }
FunctionLike == RecordsOfType("function_definition") \cup RecordsOfType("decorator")
ClassNames == { ast_trees[n].name : n \in ClassNodes }
FunctionNames == { ast_trees[n].name : n \in FunctionNodes }

FooRecord == [type |-> "class_definition", name |-> "Foo", file |-> 1,
              pattern_type |-> "class", data |-> [name |-> "Foo"], frequency |-> 1]
BarRecord == [type |-> "method_definition", name |-> "bar", file |-> 1,
              pattern_type |-> "method", data |-> [name |-> "bar", class |-> "Foo"],
              frequency |-> 1]
BazRecord == [type |-> "decorator", name |-> "baz", file |-> 1,
              pattern_type |-> "decorator", data |-> [name |-> "baz"], frequency |-> 1]

\* One file: class Foo with the single method bar in its body, and the
\* decorated top-level function baz (before or after the class).
FooBarBazInput ==
    /\ Len(ast_trees) = 4
    /\ \E c, m, f \in 2..4 :
         /\ ast_trees[c] = [parent |-> 1, kind |-> "ClassDef", name |-> "Foo",
                            decorator_list |-> FALSE]
         /\ ast_trees[m] = [parent |-> c, kind |-> "FunctionDef", name |-> "bar",
                            decorator_list |-> FALSE]
         /\ ast_trees[f] = [parent |-> 1, kind |-> "FunctionDef", name |-> "baz",
                            decorator_list |-> TRUE]

\* C1: for the input with one class Foo holding method bar and one decorated
\* top-level function baz, analyze returns exactly the three records
\* class_definition(Foo), method_definition(bar, class = Foo), decorator(baz).
C1_ExactlyThreeRecords ==
    (pc = "done" /\ FooBarBazInput) =>
        /\ Len(result) = 3
        /\ { result[k] : k \in 1..Len(result) } = {FooRecord, BarRecord, BazRecord}

\* C2: one class_definition record per class node (nested ones included); the
\* method_definition records correspond one-to-one to the functions directly in
\* a class body, each with data.class the name of its enclosing class; no other
\* function yields a method_definition record.
C2_ClassAndMethodRecords ==
    pc = "done" =>
        /\ \A r \in FileRoots, c \in ClassNames :
              Cardinality({ k \in RecordsOfType("class_definition") :
                              /\ patterns[k].file = r
                              /\ patterns[k].name = c
                              /\ patterns[k].data = [name |-> c]
                              /\ patterns[k].pattern_type = "class" })
              = Cardinality({ n \in ClassNodes :
                              FileOf(n) = r /\ ast_trees[n].name = c })
        /\ \A r \in FileRoots, c \in ClassNames, f \in FunctionNames :
              Cardinality({ k \in RecordsOfType("method_definition") :
                              /\ patterns[k].file = r
                              /\ patterns[k].name = f
                              /\ patterns[k].data = [name |-> f, class |-> c]
                              /\ patterns[k].pattern_type = "method" })
              = Cardinality({ n \in MethodNodes :
                              /\ FileOf(n) = r
                              /\ ast_trees[n].name = f
                              /\ ast_trees[ast_trees[n].parent].name = c })
        /\ Cardinality(RecordsOfType("class_definition")) = Cardinality(ClassNodes)
        /\ Cardinality(RecordsOfType("method_definition")) = Cardinality(MethodNodes)
        /\ \A k \in RecordsOfType("method_definition") : origin[k] \in MethodNodes

\* a class with a method, followed in the same file by a module-level function
C2_Witness ==
    /\ pc = "done"
    /\ \E c \in ClassNodes, m \in MethodNodes, f \in ModuleLevelFunctions :
         ast_trees[m].parent = c /\ f > c /\ FileOf(f) = FileOf(c)

\* C3: every module-level function yields one record: 'decorator' (type and
\* pattern_type) when its decorator list is non-empty, 'function_definition'
\* (pattern_type 'function') when it is empty; a decorated module-level
\* function never yields a 'function_definition' record.
C3_ModuleLevelFunctions ==
    pc = "done" =>
        \A f \in ModuleLevelFunctions :
            /\ Cardinality({ k \in Positions : origin[k] = f }) = 1
            /\ \A k \in Positions : origin[k] = f =>
                 /\ patterns[k].name = ast_trees[f].name
                 /\ patterns[k].file = FileOf(f)
                 /\ IF ast_trees[f].decorator_list
                    THEN patterns[k].type = "decorator" /\
                         patterns[k].pattern_type = "decorator"
                    ELSE patterns[k].type = "function_definition" /\
                         patterns[k].pattern_type = "function"

C3_Witness ==
    /\ pc = "done"
    /\ \E f, g \in ModuleLevelFunctions :
         ast_trees[f].decorator_list /\ ~ast_trees[g].decorator_list

Upper == <<"A","B","C","D","E","F","G","H","I","J","K","L","M",
           "N","O","P","Q","R","S","T","U","V","W","X","Y","Z">>
Lower == <<"a","b","c","d","e","f","g","h","i","j","k","l","m",
           "n","o","p","q","r","s","t","u","v","w","x","y","z">>

\* str.lower() on one character
LowerChar(c) ==
    IF \E i \in 1..26 : Upper[i] = c
    THEN Lower[CHOOSE i \in 1..26 : Upper[i] = c]
    ELSE c

\* str.lower()
ToLower(text) == [i \in 1..Len(text) |-> LowerChar(text[i])]

\* ' '.join(code_group)
RECURSIVE JoinSpace(_)
JoinSpace(group) ==
    IF group = <<>> THEN <<>>
    ELSE IF Len(group) = 1 THEN Head(group)
    ELSE Head(group) \o <<" ">> \o JoinSpace(Tail(group))

\* kw in text, scanning the start positions from i on
RECURSIVE FindFrom(_, _, _)
FindFrom(kw, text, i) ==
    IF i + Len(kw) - 1 > Len(text) THEN FALSE
    ELSE IF SubSeq(text, i, i + Len(kw) - 1) = kw THEN TRUE
    ELSE FindFrom(kw, text, i + 1)

\* Python's substring test: kw in text
In(kw, text) == FindFrom(kw, text, 1)

KwClass  == <<"c","l","a","s","s">>
KwDef    == <<"d","e","f">>
KwImport == <<"i","m","p","o","r","t">>
KwTry    == <<"t","r","y">>
KwExcept == <<"e","x","c","e","p","t">>
KwFor    == <<"f","o","r">>
KwWhile  == <<"w","h","i","l","e">>

\* line 145
CombinedCode(group) == ToLower(JoinSpace(group))

\* (variant: 'def' is tested before 'class')
IdentifyPatternTypeDefFirst(group) ==
    LET combined_code == CombinedCode(group) IN
    IF In(KwDef, combined_code) THEN "function_definition"
    ELSE IF In(KwClass, combined_code) THEN "class_definition"
    ELSE IF In(KwImport, combined_code) THEN "import_pattern"
    ELSE IF In(KwTry, combined_code) /\ In(KwExcept, combined_code) THEN "error_handling"
    ELSE IF In(KwFor, combined_code) \/ In(KwWhile, combined_code) THEN "loop_pattern"
    ELSE "general_code_pattern"

\* lines 145-158
IdentifyPatternType(group) ==
    LET combined_code == CombinedCode(group) IN
    IF In(KwClass, combined_code) THEN "class_definition"
    ELSE IF In(KwDef, combined_code) THEN "function_definition"
    ELSE IF In(KwImport, combined_code) THEN "import_pattern"
    ELSE IF In(KwTry, combined_code) /\ In(KwExcept, combined_code) THEN "error_handling"
    ELSE IF In(KwFor, combined_code) \/ In(KwWhile, combined_code) THEN "loop_pattern"
    ELSE "general_code_pattern"

MaxGroup == 2       \* fragments in the group handed to _identify_pattern_type

FragClassDef == <<"c", "l", "a", "s", "s", " ", "A", ":", " ", "d", "e", "f", " ", "f">>   \* 'class A: def f'
FragUpperDef == <<"D", "E", "F", " ", "g">>   \* 'DEF g'
FragImport == <<"i", "m", "p", "o", "r", "t", " ", "o", "s">>   \* 'import os'
FragTry == <<"t", "r", "y", ":">>   \* 'try:'
FragExcept == <<"e", "x", "c", "e", "p", "t", " ", "E">>   \* 'except E'
FragFor == <<"f", "o", "r", " ", "i">>   \* 'for i'
FragWhile == <<"W", "H", "I", "L", "E", " ", "x">>   \* 'WHILE x'
FragAssign == <<"x", " ", "=", " ", "1">>   \* 'x = 1'
FragDe == <<"d", "e">>   \* 'de'
FragF == <<"f">>   \* 'f'
FragFormat == <<"f", "o", "r", "m", "a", "t">>   \* 'format'
FragKlass == <<"C", "l", "a", "s", "s">>   \* 'Class'

LabelPool == { FragClassDef, FragUpperDef, FragImport, FragTry, FragExcept, FragFor, FragWhile, FragAssign, FragDe, FragF, FragFormat, FragKlass }

\* the sequences of n elements of S
SeqsOfLen(S, n) == [1..n -> S]

\* the object's fields and the embedding locals, for the methods that read none
IdleCalls ==
    /\ embedding_model = None /\ tokenizer = None /\ loads = 0
    /\ embeddings = <<>> /\ raised = NoError

InitLabel ==
    /\ pc = "identify"
    /\ \E n \in 0..MaxGroup : code_group \in SeqsOfLen(LabelPool, n)
    /\ result = None
    /\ IdleAnalyze /\ IdleCalls
    /\ patterns = <<>> /\ code_blocks = <<>> /\ clusters = <<>>
    /\ pattern_groups = <<>> /\ idx = 0

IdentifyPatternTypeCall ==
    /\ pc = "identify"
    /\ result' = IdentifyPatternType(code_group)
    /\ pc' = "done"
    /\ UNCHANGED <<ast_trees, files, file_path, todo, class_scope, patterns,
                   origin, embedding_model, tokenizer, loads, code_blocks,
                   embeddings, clusters, pattern_groups, idx, code_group, raised>>

NextLabel == IdentifyPatternTypeCall

SpecLabel == InitLabel /\ [][NextLabel]_vars

\* kw occurs somewhere in the space-joined, lowercased text of code_group
Occurs(kw) ==
    LET text == ToLower(JoinSpace(code_group)) IN
    \E i \in 1..Len(text) : \E j \in i..Len(text) : SubSeq(text, i, j) = kw

\* C5: the label is decided by substring presence in the space-joined,
\* lowercased text with strict precedence class > def > import >
\* (try and except) > (for or while) > general; class wins over def, and
\* exactly one of the six labels is returned.
C5_LabelPrecedence ==
    pc = "done" =>
        /\ result \in {"class_definition", "function_definition", "import_pattern",
                       "error_handling", "loop_pattern", "general_code_pattern"}
        /\ (result = "class_definition") = Occurs(KwClass)
        /\ (result = "function_definition") = (~Occurs(KwClass) /\ Occurs(KwDef))
        /\ (result = "import_pattern") =
              (~Occurs(KwClass) /\ ~Occurs(KwDef) /\ Occurs(KwImport))
        /\ (result = "error_handling") =
              (~Occurs(KwClass) /\ ~Occurs(KwDef) /\ ~Occurs(KwImport)
               /\ Occurs(KwTry) /\ Occurs(KwExcept))
        /\ (result = "loop_pattern") =
              (~Occurs(KwClass) /\ ~Occurs(KwDef) /\ ~Occurs(KwImport)
               /\ ~(Occurs(KwTry) /\ Occurs(KwExcept))
               /\ (Occurs(KwFor) \/ Occurs(KwWhile)))
        /\ (Occurs(KwClass) /\ Occurs(KwDef)) => result = "class_definition"

\* a group holding both keywords, the 'def' in a fragment before the 'class'
C5_Witness ==
    /\ pc = "done"
    /\ Len(code_group) = 2
    /\ Occurs(KwClass) /\ Occurs(KwDef)
    /\ In(KwDef, ToLower(code_group[1])) /\ ~In(KwClass, ToLower(code_group[1]))
    /\ result = "class_definition"

(***************************************************************************)
(* _analyze_clusters (lines 117-140)                                       *)
(***************************************************************************)
MaxBlocks == 4      \* fragments handed to _analyze_clusters
MaxClusterId == 1   \* largest cluster id in the clusters argument

Noise == -1
ClusterIds == Noise..MaxClusterId
GroupPool == { FragClassDef, FragFor }

\* (variant: noise positions are grouped like any other id)
NeverNoise(cluster_id) == FALSE

\* line 123
IsNoise(cluster_id) == cluster_id = Noise

\* position in the dict of the entry with this key, 0 when absent (line 126)
KeyIndex(groups, cluster_id) ==
    IF \E g \in 1..Len(groups) : groups[g].cluster_id = cluster_id
    THEN CHOOSE g \in 1..Len(groups) : groups[g].cluster_id = cluster_id
    ELSE 0

\* lines 126-128: pattern_groups after the fragment is filed under cluster_id;
\* a new key goes to the end of the dict.
Grouped(groups, cluster_id, code) ==
    IF KeyIndex(groups, cluster_id) = 0
    THEN Append(groups, [cluster_id |-> cluster_id, group |-> <<code>>])
    ELSE [groups EXCEPT ![KeyIndex(groups, cluster_id)].group = Append(@, code)]

\* (variant: the last three fragments are kept)
LastThree(group) ==
    SubSeq(group, IF Len(group) > 3 THEN Len(group) - 2 ELSE 1, Len(group))

\* line 136: group[:3]
FirstThree(group) ==
    SubSeq(group, 1, IF Len(group) < 3 THEN Len(group) ELSE 3)

\* lines 133-138
Summary(cluster_id, group) ==
    [cluster_id |-> cluster_id,
     frequency |-> Len(group),
     examples |-> FirstThree(group),
     pattern_type |-> IdentifyPatternType(group)]

\* clusters and code_blocks are positionally aligned (one id per fragment)
InitGroups ==
    /\ pc = "group"
    /\ \E n \in 0..MaxBlocks :
         /\ clusters \in SeqsOfLen(ClusterIds, n)
         /\ code_blocks \in SeqsOfLen(GroupPool, n)
    /\ pattern_groups = <<>>
    /\ idx = 0
    /\ patterns = <<>>
    /\ result = None
    /\ code_group = <<>>
    /\ IdleAnalyze /\ IdleCalls

\* lines 122-128: one iteration of the enumerate loop
AnalyzeClustersGroup ==
    /\ pc = "group"
    /\ idx < Len(clusters)
    /\ idx' = idx + 1
    /\ pattern_groups' =
         IF IsNoise(clusters[idx + 1]) THEN pattern_groups
         ELSE Grouped(pattern_groups, clusters[idx + 1], code_blocks[idx + 1])
    /\ UNCHANGED <<pc, ast_trees, files, file_path, todo, class_scope, patterns,
                   origin, embedding_model, tokenizer, loads, code_blocks,
                   embeddings, clusters, code_group, result, raised>>

\* line 131: the first loop is exhausted
AnalyzeClustersStartSummaries ==
    /\ pc = "group"
    /\ idx = Len(clusters)
    /\ pc' = "summarize"
    /\ patterns' = <<>>
    /\ idx' = 0
    /\ UNCHANGED <<ast_trees, files, file_path, todo, class_scope, origin,
                   embedding_model, tokenizer, loads, code_blocks, embeddings,
                   clusters, pattern_groups, code_group, result, raised>>

\* lines 132-138: one iteration over pattern_groups.items()
AnalyzeClustersSummarize ==
    /\ pc = "summarize"
    /\ idx < Len(pattern_groups)
    /\ idx' = idx + 1
    /\ patterns' = Append(patterns, Summary(pattern_groups[idx + 1].cluster_id,
                                            pattern_groups[idx + 1].group))
    /\ UNCHANGED <<pc, ast_trees, files, file_path, todo, class_scope, origin,
                   embedding_model, tokenizer, loads, code_blocks, embeddings,
                   clusters, pattern_groups, code_group, result, raised>>

\* line 140
AnalyzeClustersReturn ==
    /\ pc = "summarize"
    /\ idx = Len(pattern_groups)
    /\ pc' = "done"
    /\ result' = patterns
    /\ UNCHANGED <<ast_trees, files, file_path, todo, class_scope, patterns,
                   origin, embedding_model, tokenizer, loads, code_blocks,
                   embeddings, clusters, pattern_groups, idx, code_group, raised>>

NextGroups ==
    \/ AnalyzeClustersGroup
    \/ AnalyzeClustersStartSummaries
    \/ AnalyzeClustersSummarize
    \/ AnalyzeClustersReturn

SpecGroups == InitGroups /\ [][NextGroups]_vars

\* the input positions that carry cluster id c, in increasing order
PositionsOf(c) ==
    LET Carries(i) == clusters[i] = c
    IN  SelectSeq([i \in 1..Len(clusters) |-> i], Carries)

\* the fragments of cluster c in input order
FragmentsOf(c) == [k \in 1..Len(PositionsOf(c)) |-> code_blocks[PositionsOf(c)[k]]]

RECURSIVE SumFrequency(_)
SumFrequency(summaries) ==
    IF summaries = <<>> THEN 0
    ELSE Head(summaries).frequency + SumFrequency(Tail(summaries))

Summaries == 1..Len(result)

\* C4: noise (id -1) never reaches a summary; every other id present in
\* clusters has exactly one summary, whose frequency is the number of
\* positions carrying that id, and every summarised fragment sits at a
\* position of that id; the frequencies sum to the number of non-noise
\* positions.
C4_NoiseExcluded ==
    pc = "done" =>
        /\ \A k \in Summaries : result[k].cluster_id # Noise
        /\ \A k \in Summaries :
             \E i \in 1..Len(clusters) : clusters[i] = result[k].cluster_id
        /\ \A i \in 1..Len(clusters) :
             clusters[i] # Noise =>
               /\ Cardinality({ k \in Summaries :
                                  result[k].cluster_id = clusters[i] }) = 1
               /\ \A k \in Summaries :
                    result[k].cluster_id = clusters[i] =>
                      result[k].frequency = Len(PositionsOf(clusters[i]))
        /\ \A k \in Summaries : \A e \in 1..Len(result[k].examples) :
             \E i \in 1..Len(clusters) :
                /\ clusters[i] = result[k].cluster_id
                /\ code_blocks[i] = result[k].examples[e]
        /\ SumFrequency(result)
             = Cardinality({ i \in 1..Len(clusters) : clusters[i] # Noise })

\* noise between the members of two different clusters
C4_Witness ==
    /\ pc = "done"
    /\ \E i, j, k \in 1..Len(clusters) :
         /\ i < j /\ j < k
         /\ clusters[i] # Noise /\ clusters[j] = Noise /\ clusters[k] # Noise
         /\ clusters[i] # clusters[k]
    /\ Len(result) = 2

\* C6: a summary has at most 3 examples: the first min(3, frequency)
\* fragments of its cluster in increasing input-index order.
C6_FirstThreeExamples ==
    pc = "done" =>
        \A k \in Summaries :
            LET members == FragmentsOf(result[k].cluster_id) IN
            /\ Len(result[k].examples) <= 3
            /\ Len(result[k].examples) =
                 (IF result[k].frequency < 3 THEN result[k].frequency ELSE 3)
            /\ \A e \in 1..Len(result[k].examples) :
                 result[k].examples[e] = members[e]

\* a cluster of more than three fragments whose fourth differs from its first
C6_Witness ==
    /\ pc = "done"
    /\ \E k \in Summaries :
         /\ result[k].frequency > 3
         /\ Len(result[k].examples) = 3
         /\ FragmentsOf(result[k].cluster_id)[4] # FragmentsOf(result[k].cluster_id)[1]

(***************************************************************************)
(* __init__, _initialize_embedding_model, _get_embeddings (lines 14-56)    *)
(***************************************************************************)
MaxEmbed == 2       \* fragments handed to _get_embeddings
MaxCoord == 5       \* largest coordinate of an embedding vector, in tenths

MaxLength == 512    \* max_length of the tokenizer call

\* An embedding vector: a tuple of coordinates in units of 0.1 (the vectors
\* drawn here have a single coordinate).
Vectors == { <<x>> : x \in 0..MaxCoord }

ModelName == "microsoft/codebert-base"

\* truncation=True, max_length=512: the fragment is cut so that it fits with
\* the two special tokens; padding=True pads to the longest of the batch,
\* which for a single fragment is the fragment itself.
Tokenize(tok, code) ==
    <<"<s>">> \o
    SubSeq(code, 1, IF Len(code) > MaxLength - 2 THEN MaxLength - 2 ELSE Len(code))
    \o <<"</s>">>

\* Fragments: a short one, and two over-long ones that differ only in their
\* last character.
FragLongA == [i \in 1..(MaxLength + 1) |-> "x"]
FragLongB == [i \in 1..(MaxLength + 1) |-> IF i = MaxLength + 1 THEN "y" ELSE "x"]
EmbedPool == { FragAssign, FragFor, FragLongA, FragLongB }

TokenSeqs == { Tokenize(ModelName, c) : c \in EmbedPool }

\* A model is the map from token sequences to the vector it puts at position
\* 0 of last_hidden_state; the pretrained weights are not part of the source,
\* so every such map into the two extreme vectors is considered.
ModelOutputs == { <<0>>, <<MaxCoord>> }
Models == [TokenSeqs -> ModelOutputs]

\* lines 39-50: outputs.last_hidden_state[:, 0, :].numpy()[0] for one fragment
EmbedOne(tok, model, code) == model[Tokenize(tok, code)]

\* (variant: the new vector is put in front)
PutFirst(embs, e) == <<e>> \o embs

\* line 51: embeddings.append(embedding[0])
AppendEmbedding(embs, e) == Append(embs, e)

\* An exception: its type, its message (the parts of the formatted string)
\* and its context (the exception being handled when it was raised, if any).
LibraryErrors ==
    { [type |-> "OSError", message |-> <<"cannot load">>, context |-> <<>>],
      [type |-> "RuntimeError", message |-> <<"bad input">>, context |-> <<>>] }

\* raise PatternAnalysisError(f"<prefix>{str(e)}") inside `except Exception as e`:
\* the message is the prefix followed by str(e), and Python records e as the
\* context of the new exception.
PatternAnalysisError(prefix, e) ==
    [type |-> "PatternAnalysisError", message |-> <<prefix>> \o e.message,
     context |-> <<e>>]

InitEmbed ==
    /\ pc = "new"
    /\ embedding_model = None
    /\ tokenizer = None
    /\ loads = 0
    /\ code_blocks = <<>>
    /\ embeddings = <<>>
    /\ idx = 0
    /\ result = None
    /\ raised = NoError
    /\ IdleAnalyze
    /\ patterns = <<>> /\ clusters = <<>> /\ pattern_groups = <<>>
    /\ code_group = <<>>

\* lines 16-19: __init__ with a (truthy) model supplied.  The tokenizer is
\* loaded outside any try block.
ConstructWithModel ==
    /\ pc = "new"
    /\ \E model \in Models :
         /\ embedding_model' = model
         /\ loads' = loads + 1
         /\ \/ /\ tokenizer' = ModelName
               /\ raised' = NoError
               /\ pc' = "ready"
            \/ \E e \in LibraryErrors :
                 /\ tokenizer' = None
                 /\ raised' = e
                 /\ pc' = "failed"
    /\ UNCHANGED <<ast_trees, files, file_path, todo, class_scope, patterns,
                   origin, code_blocks, embeddings, clusters, pattern_groups,
                   idx, code_group, result>>

\* lines 20-31: __init__ without a model (or with a falsy one):
\* _initialize_embedding_model loads the model, then the tokenizer, inside
\* one try block.
ConstructDefault ==
    /\ pc = "new"
    /\ \/ \E model \in Models :           \* both loads succeed
            /\ embedding_model' = model
            /\ tokenizer' = ModelName
            /\ loads' = loads + 2
            /\ raised' = NoError
            /\ pc' = "ready"
       \/ \E e \in LibraryErrors :        \* AutoModel.from_pretrained raises
            /\ embedding_model' = None
            /\ tokenizer' = None
            /\ loads' = loads + 1
            /\ raised' = PatternAnalysisError("Model initialization failed: ", e)
            /\ pc' = "failed"
       \/ \E model \in Models, e \in LibraryErrors :  \* the tokenizer load raises
            /\ embedding_model' = model
            /\ tokenizer' = None
            /\ loads' = loads + 2
            /\ raised' = PatternAnalysisError("Model initialization failed: ", e)
            /\ pc' = "failed"
    /\ UNCHANGED <<ast_trees, files, file_path, todo, class_scope, patterns,
                   origin, code_blocks, embeddings, clusters, pattern_groups,
                   idx, code_group, result>>

\* lines 33-36: a call of _get_embeddings on the constructed object
GetEmbeddingsCall ==
    /\ pc \in {"ready", "returned", "raised"}
    /\ \E n \in 0..MaxEmbed : \E blocks \in SeqsOfLen(EmbedPool, n) :
         code_blocks' = blocks
    /\ embeddings' = <<>>
    /\ idx' = 0
    /\ result' = None
    /\ raised' = NoError
    /\ pc' = "embed"
    /\ UNCHANGED <<ast_trees, files, file_path, todo, class_scope, patterns,
                   origin, embedding_model, tokenizer, loads, clusters,
                   pattern_groups, code_group>>

\* lines 37-51: one iteration of the loop; lines 54-56 when the tokenizer or
\* the model raises.
GetEmbeddingsStep ==
    /\ pc = "embed"
    /\ idx < Len(code_blocks)
    /\ \/ /\ embeddings' = AppendEmbedding(embeddings,
                              EmbedOne(tokenizer, embedding_model, code_blocks[idx + 1]))
          /\ idx' = idx + 1
          /\ UNCHANGED <<pc, raised>>
       \/ \E e \in LibraryErrors :
            /\ raised' = PatternAnalysisError("Failed to generate embeddings: ", e)
            /\ pc' = "raised"
            /\ UNCHANGED <<embeddings, idx>>
    /\ UNCHANGED <<ast_trees, files, file_path, todo, class_scope, patterns,
                   origin, embedding_model, tokenizer, loads, code_blocks,
                   clusters, pattern_groups, code_group, result>>

\* line 53
GetEmbeddingsReturn ==
    /\ pc = "embed"
    /\ idx = Len(code_blocks)
    /\ result' = embeddings
    /\ pc' = "returned"
    /\ UNCHANGED <<ast_trees, files, file_path, todo, class_scope, patterns,
                   origin, embedding_model, tokenizer, loads, code_blocks,
                   embeddings, clusters, pattern_groups, idx, code_group, raised>>

NextEmbed ==
    \/ ConstructWithModel
    \/ ConstructDefault
    \/ GetEmbeddingsCall
    \/ GetEmbeddingsStep
    \/ GetEmbeddingsReturn

SpecEmbed == InitEmbed /\ [][NextEmbed]_vars

\* C8: every failure of initialization (either constructor path), embedding
\* generation or clustering leaves the call as a PatternAnalysisError whose
\* message contains the original failure's message, and the failing call
\* returns nothing.
C8_OnlyPatternAnalysisError ==
    raised # NoError =>
        /\ raised.type = "PatternAnalysisError"
        /\ Len(raised.context) = 1
        /\ \E k \in 1..Len(raised.message) :
             SubSeq(raised.message, k, Len(raised.message)) = raised.context[1].message
        /\ result = None

\* once constructed, no step loads a model or tokenizer or replaces the pair
NothingReloaded ==
    pc \in {"ready", "embed", "returned", "raised"} =>
        (loads' = loads /\ tokenizer' = tokenizer /\ embedding_model' = embedding_model)

\* C9: a successful _get_embeddings returns one vector per fragment, the i-th
\* being the embedding of the i-th fragment alone, computed with the tokenizer
\* and model acquired at construction; nothing is loaded during the call.
C9_OrderPreserved ==
    /\ [](pc = "returned" =>
            /\ Len(result) = Len(code_blocks)
            /\ \A i \in 1..Len(code_blocks) :
                 result[i] = embedding_model[Tokenize(tokenizer, code_blocks[i])])
    /\ [][NothingReloaded]_vars

\* two different fragments with different embeddings, returned in input order
C9_Witness ==
    /\ pc = "returned"
    /\ Len(result) = 2
    /\ code_blocks[1] # code_blocks[2]
    /\ result[1] # result[2]

(***************************************************************************)
(* _cluster_patterns (lines 58-67)                                         *)
(***************************************************************************)
MaxPoints == 4      \* embedding vectors handed to _cluster_patterns

EpsTenths == 3      \* eps=0.3, in the unit of the coordinates (0.1)
MinSamples == 2     \* min_samples=2

\* DBSCAN is the library's algorithm, called at lines 61-62 with the default
\* Euclidean metric; it is modelled as the library documents and implements it.

\* squared Euclidean distance, in squared tenths
RECURSIVE SumSq(_, _, _)
SumSq(p, q, k) ==
    IF k = 0 THEN 0 ELSE (p[k] - q[k]) * (p[k] - q[k]) + SumSq(p, q, k - 1)

DistSq(p, q) == SumSq(p, q, Len(p))

\* DBSCAN's eps-neighbourhood of point i: every point at distance <= eps,
\* the point itself included.
Neighborhood(points, i) ==
    { j \in 1..Len(points) : DistSq(points[i], points[j]) <= EpsTenths * EpsTenths }

\* (variant: min_samples=1, every point is a core point)
IsCoreAlone(points, i) == Cardinality(Neighborhood(points, i)) >= 1

\* a core point has at least min_samples points in its neighbourhood
IsCore(points, i) == Cardinality(Neighborhood(points, i)) >= MinSamples

\* the points reached from the set S by expanding core points
RECURSIVE Expand(_, _)
Expand(points, S) ==
    LET more == S \cup UNION { Neighborhood(points, u) : u \in { v \in S : IsCore(points, v) } }
    IN  IF more = S THEN S ELSE Expand(points, more)

\* DBSCAN's labelling loop: the points are scanned in index order; an
\* unlabelled core point starts the next cluster, which takes every still
\* unlabelled point reachable from it.  Everything else keeps the label -1.
RECURSIVE LabelFrom(_, _, _, _)
LabelFrom(points, i, labels, label_num) ==
    IF i > Len(points) THEN labels
    ELSE IF labels[i] # Noise \/ ~IsCore(points, i)
    THEN LabelFrom(points, i + 1, labels, label_num)
    ELSE LabelFrom(points, i + 1,
                   [j \in 1..Len(points) |->
                      IF labels[j] = Noise /\ j \in Expand(points, {i})
                      THEN label_num ELSE labels[j]],
                   label_num + 1)

\* line 61-62: DBSCAN(eps=0.3, min_samples=2).fit_predict(embeddings)
FitPredict(points) ==
    LabelFrom(points, 1, [j \in 1..Len(points) |-> Noise], 0)

\* the loaded pair the object holds in SpecCluster; _cluster_patterns reads
\* neither field
OriginModel == [t \in TokenSeqs |-> <<0>>]

InitCluster ==
    /\ pc = "cluster"
    /\ \E n \in 0..MaxPoints : embeddings \in SeqsOfLen(Vectors, n)
    /\ embedding_model = OriginModel
    /\ tokenizer = ModelName
    /\ loads = 2
    /\ result = None
    /\ raised = NoError
    /\ IdleAnalyze
    /\ patterns = <<>> /\ code_blocks = <<>> /\ clusters = <<>>
    /\ pattern_groups = <<>> /\ idx = 0 /\ code_group = <<>>

\* lines 60-64: the clustering succeeds.  An empty array is rejected by
\* fit_predict (it is not two-dimensional).
ClusterPatternsReturn ==
    /\ pc = "cluster"
    /\ embeddings # <<>>
    /\ result' = FitPredict(embeddings)
    /\ pc' = "returned"
    /\ UNCHANGED <<ast_trees, files, file_path, todo, class_scope, patterns,
                   origin, embedding_model, tokenizer, loads, code_blocks,
                   embeddings, clusters, pattern_groups, idx, code_group, raised>>

\* lines 65-67: fit_predict raises
ClusterPatternsRaise ==
    /\ pc = "cluster"
    /\ \E e \in LibraryErrors \cup
                { [type |-> "ValueError", message |-> <<"Expected 2D array">>,
                   context |-> <<>>] } :
         /\ (e.type = "ValueError") = (embeddings = <<>>)
         /\ raised' = PatternAnalysisError("Failed to cluster patterns: ", e)
    /\ pc' = "raised"
    /\ UNCHANGED <<ast_trees, files, file_path, todo, class_scope, patterns,
                   origin, embedding_model, tokenizer, loads, code_blocks,
                   embeddings, clusters, pattern_groups, idx, code_group, result>>

NextCluster == ClusterPatternsReturn \/ ClusterPatternsRaise

SpecCluster == InitCluster /\ [][NextCluster]_vars

\* the other points within the threshold 0.3 of point i
OtherNeighbors(i) ==
    { j \in 1..Len(embeddings) :
        j # i /\ DistSq(embeddings[i], embeddings[j]) <= EpsTenths * EpsTenths }

\* C7 (as stated): every point placed in a non-noise group has at least 2
\* other points within the threshold 0.3.
C7_TwoOtherNeighbors ==
    pc = "returned" =>
        \A i \in 1..Len(embeddings) :
            result[i] # Noise => Cardinality(OtherNeighbors(i)) >= 2

\* C7 (amended): every point placed in a non-noise group has at least 1 other
\* point within the threshold 0.3, that is at least 2 points in its
\* neighbourhood when the point itself is counted.
C7_OneOtherNeighbor ==
    pc = "returned" =>
        \A i \in 1..Len(embeddings) :
            result[i] # Noise => Cardinality(OtherNeighbors(i)) >= 1

\* a pair of points within the threshold put in one group, next to a noise point
C7_Witness ==
    /\ pc = "returned"
    /\ \E i, j, k \in 1..Len(embeddings) :
         /\ result[i] # Noise /\ result[j] = result[i] /\ i # j
         /\ OtherNeighbors(i) = {j}
         /\ result[k] = Noise

=============================================================================
